---------------------------- MODULE Spec2Model ----------------------------
(***************************************************************************)
(* A model of src/clone-node.ts: the recursive, asynchronous cloning of a  *)
(* DOM node (cloneNode, cloneSingleNode, cloneChildren, decorate) and the  *)
(* per-property style copy (cloneCSSStyle).                                *)
(*                                                                         *)
(* A CSS value is a record: Px(t) is t tenths of a pixel ("16.5px" is      *)
(* Px(165)), Em(t) a length in another unit, Kw(w) a keyword.              *)
(***************************************************************************)
EXTENDS Integers, Sequences, FiniteSets, TLC

VARIABLES
    dom,      \* the heap of nodes: node id -> node record (originals and clones)
    before,   \* the source tree as it was when cloneNode was called
    options,  \* the Options object: whether options.filter exists
    calls,    \* the cloneNode invocations, in the order they were made
    log,      \* what happened, in order (filter calls, clones, appends, ...)
    css       \* the style copy under study (specification SpecStyle)

vars == <<dom, before, options, calls, log, css>>

\* Number of nodes of the source tree.
MaxNodes == 4
\* Largest whole font size, in px, of the computed styles tried.
MaxFontPx == 16

Null == 0

---------------------------------------------------------------------------
(* CSS values and style declarations                                       *)

Px(t) == [unit |-> "px", n |-> t, word |-> ""]
Em(t) == [unit |-> "em", n |-> t, word |-> ""]
Kw(w) == [unit |-> "", n |-> 0, word |-> w]

\* value.endsWith("px")
EndsWithPx(value) == value.unit = "px"

\* `${Math.floor(parseFloat(value.substring(0, value.length - 2))) - 0.1}px`
reducedFontTruncating(value) == Px((value.n \div 10) * 10)

reducedFont(value) == Px(((value.n \div 10) * 10) - 1)

\* parseInt(value.replace("px", "")): NaN for a keyword
ParseInt(value) ==
    IF value.unit = "" THEN [nan |-> TRUE, n |-> 0]
    ELSE [nan |-> FALSE, n |-> value.n \div 10]

\* a < b on numbers that may be NaN
NumLess(a, b) == ~a.nan /\ ~b.nan /\ a.n < b.n

\* An empty declaration block: no property is set.
EmptyStyle == [name \in {} |-> [value |-> Kw(""), priority |-> ""]]

RemoveProperty(style, name) ==
    [p \in (DOMAIN style) \ {name} |-> style[p]]

\* CSSStyleDeclaration.setProperty: an empty value removes the property.
SetProperty(style, name, value, priority) ==
    IF value = Kw("") THEN RemoveProperty(style, name)
    ELSE [p \in (DOMAIN style) \cup {name} |->
            IF p = name THEN [value |-> value, priority |-> priority]
            ELSE style[p]]

HasProperty(style, name) == name \in DOMAIN style

\* A computed style: the names it enumerates, in order, the declaration of
\* every property, and whether it serializes to a non-empty cssText.
GetPropertyValue(sourceStyle, name) == sourceStyle.decl[name].value

GetPropertyPriority(sourceStyle, name) == sourceStyle.decl[name].priority

\* targetStyle.cssText = sourceStyle.cssText: the block is replaced by the
\* declarations the text serializes.
SetCssText(sourceStyle) ==
    [p \in {sourceStyle.names[i] : i \in 1..Len(sourceStyle.names)} |->
        sourceStyle.decl[p]]

IsScrollable(overflowY) == overflowY \in {Kw("auto"), Kw("scroll")}

\* "non-body scrolling": the node itself is scrolled.
SelfScrolledAnyName(env, name) ==
    /\ env.scrollTop > 0
    /\ IsScrollable(GetPropertyValue(env.sourceStyle, "overflow-y"))

SelfScrolled(env, name) ==
    /\ env.scrollTop > 0
    /\ IsScrollable(GetPropertyValue(env.sourceStyle, "overflow-y"))
    /\ name = "overflow-y"

\* The parent element is scrolled.
ParentScrolled(env) ==
    /\ env.hasParent
    /\ env.parentScrollTop > 0
    /\ IsScrollable(GetPropertyValue(env.parentStyle, "overflow-y"))

\* "body scrolling": the parent is as tall as the window and the node taller.
BodyScrolled(env) ==
    /\ env.hasParent
    /\ GetPropertyValue(env.sourceStyle, "position") # Kw("fixed")
    /\ GetPropertyValue(env.parentStyle, "min-height") = Px(10 * env.innerHeight)
    /\ NumLess(ParseInt(GetPropertyValue(env.parentStyle, "min-height")),
               ParseInt(GetPropertyValue(env.sourceStyle, "height")))

\* The value the loop body commits for one property name.
PropertyValue(env, name) ==
    LET v0 == GetPropertyValue(env.sourceStyle, name)
        v1 == IF name = "font-size" /\ EndsWithPx(v0) THEN reducedFont(v0) ELSE v0
        v2 == IF SelfScrolled(env, name) THEN Kw("hidden") ELSE v1
        v3 == IF ~ParentScrolled(env) THEN v2
              ELSE IF name = "position" THEN Kw("relative")
              ELSE IF name = "top" THEN Px(-(10 * env.parentScrollTop))
              ELSE v2
        v4 == IF ~BodyScrolled(env) THEN v3
              ELSE IF name = "position" THEN Kw("relative")
              ELSE IF name = "top" THEN Px(-(10 * env.scrollY))
              ELSE v3
    IN v4

\* Whether the loop body calls targetStyle.removeProperty("inset-block").
RemovesInsetBlock(env, name) ==
    name = "top" /\ (ParentScrolled(env) \/ BodyScrolled(env))

\* One iteration of the forEach over the computed style's names.
CopyProperty(env, targetStyle, name) ==
    LET t == IF RemovesInsetBlock(env, name)
             THEN RemoveProperty(targetStyle, "inset-block")
             ELSE targetStyle
    IN SetProperty(t, name, PropertyValue(env, name),
                   GetPropertyPriority(env.sourceStyle, name))

RECURSIVE CopyProperties(_, _, _)
CopyProperties(env, targetStyle, i) ==
    IF i > Len(env.sourceStyle.names) THEN targetStyle
    ELSE CopyProperties(env,
                        CopyProperty(env, targetStyle, env.sourceStyle.names[i]),
                        i + 1)

\* if (sourceStyle.cssText): the computed style serializes to text
UsesFastPath(env) == env.sourceStyle.cssText

\* cloneCSSStyle(nativeNode, clonedNode): the clone's style afterwards.  env
\* is what the function reads of the native node, its parent and the window.
cloneCSSStyle(env, hasStyle, targetStyle) ==
    IF ~hasStyle THEN targetStyle
    ELSE IF UsesFastPath(env)
    THEN SetProperty(SetCssText(env.sourceStyle), "transform-origin",
                     GetPropertyValue(env.sourceStyle, "transform-origin"), "")
    ELSE CopyProperties(env, targetStyle, 1)

---------------------------------------------------------------------------
(* The style copy on its own: specification SpecStyle                      *)

\* The property names a computed style enumerates, in an order the browser
\* chooses, followed by the rest.
CoreProps == {"font-size", "overflow-y", "position", "top", "inset-block"}

TailProps == <<"height", "min-height", "transform-origin">>

StyleProps == CoreProps \cup {TailProps[i] : i \in 1..Len(TailProps)}

Orders ==
    {o \in [1..Cardinality(CoreProps) -> CoreProps] :
        \A i, j \in DOMAIN o : i # j => o[i] # o[j]}

FontSizes ==
    {Px(10 * f + r) : f \in (MaxFontPx - 1)..MaxFontPx, r \in {0, 5}} \cup {Em(12)}

Overflows == {Kw("visible"), Kw("auto"), Kw("scroll")}

\* A computed style with the given values; font-size is !important.
Computed(cssText, names, fontSize, overflowY, position, minHeight) ==
    [cssText |-> cssText,
     names |-> names,
     decl |-> [p \in StyleProps |->
        [value |-> CASE p = "font-size" -> fontSize
                     [] p = "overflow-y" -> overflowY
                     [] p = "position" -> position
                     [] p = "top" -> Kw("auto")
                     [] p = "inset-block" -> Px(0)
                     [] p = "height" -> Px(9000)
                     [] p = "min-height" -> minHeight
                     [] OTHER -> Kw("center"),
         priority |-> IF p = "font-size" THEN "important" ELSE ""]]]

\* The inline style a shallow clone starts with.
InlineStyle == SetProperty(EmptyStyle, "inset-block", Px(0), "")

StyleInputs ==
    {[cssText |-> c, fontSize |-> f, overflowY |-> o, position |-> p,
      scrollTop |-> s, hasParent |-> h, parentScrollTop |-> ps,
      parentOverflowY |-> po, parentMinHeight |-> pm] :
        c \in BOOLEAN, f \in FontSizes, o \in Overflows,
        p \in {Kw("static"), Kw("fixed")}, s \in {0, 40}, h \in BOOLEAN,
        ps \in {0, 25}, po \in Overflows, pm \in {Px(0), Px(6000)}}

\* What cloneCSSStyle reads, for a node with inputs in and a computed style
\* enumerating its names in the given order.
StyleEnv(in, order) ==
    [sourceStyle |-> Computed(in.cssText, order \o TailProps, in.fontSize,
                              in.overflowY, in.position, Px(0)),
     scrollTop |-> in.scrollTop,
     hasParent |-> in.hasParent,
     parentScrollTop |-> in.parentScrollTop,
     parentStyle |-> Computed(FALSE, order \o TailProps, Px(160),
                              in.parentOverflowY, Kw("static"), in.parentMinHeight),
     innerHeight |-> 600,
     scrollY |-> 100]

NoCss == [pc |-> "unused"]

InitStyle ==
    /\ dom = <<>> /\ before = <<>> /\ calls = <<>> /\ log = <<>>
    /\ options = [filter |-> FALSE]
    /\ \E in \in StyleInputs :
          /\ in.hasParent \/ (in.parentScrollTop = 0 /\ in.parentOverflowY = Kw("visible")
                               /\ in.parentMinHeight = Px(0))
          /\ css = [pc |-> "start", in |-> in, order |-> <<>>, target |-> InlineStyle]

\* cloneCSSStyle(nativeNode, clonedNode) on a clone that has a style.
ApplyStyle ==
    /\ css.pc = "start"
    /\ \E order \in Orders :
          css' = [css EXCEPT !.pc = "done", !.order = order,
                             !.target = cloneCSSStyle(StyleEnv(css.in, order), TRUE,
                                                      css.target)]
    /\ UNCHANGED <<dom, before, options, calls, log>>

NextStyle == ApplyStyle

SpecStyle == InitStyle /\ [][NextStyle]_vars

\* The environment the finished copy ran in.
DoneEnv == StyleEnv(css.in, css.order)

StyleDone == css.pc = "done"

SlowPath == StyleDone /\ ~css.in.cssText

---------------------------------------------------------------------------
(* The DOM: nodes, trees, shadow roots and slots                           *)

Originals == 1..MaxNodes

NoAttrs == [a \in {} |-> ""]

\* A node of the heap.  of is the original a clone was made for (Null for an
\* original); assigned is what assignedNodes() returns for a slot element.
Node(tag, parentNode, childNodes, shadowRoot, assigned, poster, value, attrs, style, scrollTop, overflowY, of) ==
    [tag |-> tag, parentNode |-> parentNode, childNodes |-> childNodes,
     shadowRoot |-> shadowRoot, assigned |-> assigned, poster |-> poster,
     value |-> value, attrs |-> attrs, style |-> style, scrollTop |-> scrollTop,
     overflowY |-> overflowY, pseudo |-> FALSE, of |-> of]

\* clonedNode instanceof Element
IsElement(node) == node.tag \notin {"#text", "#shadow-root"}

GetAttribute(node, name) ==
    IF name \in DOMAIN node.attrs THEN node.attrs[name] ELSE "null"

SetAttribute(node, name, value) ==
    [node EXCEPT !.attrs = (name :> value) @@ node.attrs]

RECURSIVE SeqOfSet(_)
\* The members of a set of node ids, in ascending (document) order.
SeqOfSet(S) ==
    IF S = {} THEN <<>>
    ELSE LET m == CHOOSE x \in S : \A y \in S : x <= y
         IN <<m>> \o SeqOfSet(S \ {m})

Remove(seq, x) == SelectSeq(seq, LAMBDA y : y # x)

\* The parent of every node but node 1: a tree in document order.
Shapes ==
    {p \in [2..MaxNodes -> 1..MaxNodes] : \A n \in 2..MaxNodes : p[n] < n}

\* What the one node of the tree that is not a plain element may be.
Kinds ==
    {[tag |-> "DIV", poster |-> ""],
     [tag |-> "VIDEO", poster |-> ""],
     [tag |-> "VIDEO", poster |-> "poster.png"],
     [tag |-> "CANVAS", poster |-> ""],
     [tag |-> "SLOT", poster |-> ""],
     [tag |-> "TEXTAREA", poster |-> ""],
     [tag |-> "INPUT", poster |-> ""],
     [tag |-> "SELECT", poster |-> ""],
     [tag |-> "#text", poster |-> ""],
     [tag |-> "#shadow-root", poster |-> ""]}

ParentIn(p, n) == IF n = 1 THEN Null ELSE p[n]

\* Node s is of kind k; the children of a select are options, the children of
\* a shadow root are slots, every other node is a div.
TagIn(p, s, k, n) ==
    IF n = s THEN k.tag
    ELSE IF ParentIn(p, n) = s /\ k.tag = "SELECT" THEN "OPTION"
    ELSE IF ParentIn(p, n) = s /\ k.tag = "#shadow-root" THEN "SLOT"
    ELSE "DIV"

ChildNodesIn(p, s, k, n) ==
    SeqOfSet({m \in 2..MaxNodes : p[m] = n /\ TagIn(p, s, k, m) # "#shadow-root"})

ShadowRootIn(p, s, k, n) ==
    IF k.tag = "#shadow-root" /\ ParentIn(p, s) = n THEN s ELSE Null

\* The light children of a shadow host are assigned to the first slot of its
\* shadow tree; any other slot has no assigned nodes.
AssignedIn(p, s, k, n) ==
    IF /\ TagIn(p, s, k, n) = "SLOT"
       /\ k.tag = "#shadow-root"
       /\ ParentIn(p, n) = s
       /\ \A m \in 2..MaxNodes : p[m] = s => n <= m
    THEN ChildNodesIn(p, s, k, p[s])
    ELSE <<>>

\* The form control's current value: what the user typed, or the value of
\* the select's first option.
ValueIn(p, s, k, n) ==
    CASE TagIn(p, s, k, n) \in {"TEXTAREA", "INPUT"} -> "typed"
      [] TagIn(p, s, k, n) = "SELECT" ->
            IF ChildNodesIn(p, s, k, n) = <<>> THEN ""
            ELSE "option" \o ToString(ChildNodesIn(p, s, k, n)[1])
      [] OTHER -> ""

AttrsIn(p, s, k, n) ==
    CASE TagIn(p, s, k, n) = "OPTION" -> ("value" :> ("option" \o ToString(n)))
      [] TagIn(p, s, k, n) = "VIDEO" /\ k.poster # "" -> ("poster" :> k.poster)
      [] OTHER -> NoAttrs

\* The source tree: node 1 is a scrolled container (scrollTop 25,
\* overflow-y: scroll), every node carries an inline inset-block.
SourceTree(p, s, k) ==
    [n \in Originals |->
        Node(TagIn(p, s, k, n), ParentIn(p, n), ChildNodesIn(p, s, k, n),
             ShadowRootIn(p, s, k, n), AssignedIn(p, s, k, n),
             IF n = s THEN k.poster ELSE "", ValueIn(p, s, k, n),
             AttrsIn(p, s, k, n), InlineStyle,
             IF n = 1 THEN 25 ELSE 0,
             IF n = 1 THEN Kw("scroll") ELSE Kw("visible"), Null)]

ValidTree(p, s, k) ==
    /\ k.tag = "DIV" => s = 1
    /\ k.tag = "#text" => \A m \in 2..MaxNodes : p[m] # s
    /\ k.tag = "#shadow-root" => s # 1

\* nativeNode.parentElement: null for a detached node and under a shadow root
ParentElement(d, n) ==
    IF d[n].parentNode = Null \/ ~IsElement(d[d[n].parentNode]) THEN Null
    ELSE d[n].parentNode

RECURSIVE IsUnder(_, _, _)
\* n is m or lies below m in the tree (through child and shadow-root links).
IsUnder(d, n, m) ==
    \/ n = m
    \/ d[n].parentNode # Null /\ IsUnder(d, d[n].parentNode, m)

\* node.cloneNode(false): tag, attributes and inline style, no children
ShallowClone(node, of) ==
    Node(node.tag, Null, <<>>, Null, <<>>, node.poster, "", node.attrs,
         node.style, 0, Kw("visible"), of)

\* createImage(dataURL): a new image element showing the data URL
CreateImageNode(url, of) ==
    Node("IMG", Null, <<>>, Null, <<>>, "", "", ("src" :> url), EmptyStyle,
         0, Kw("visible"), of)

\* A text node made by the HTML parser (innerHTML).
TextNode(parentNode) ==
    Node("#text", parentNode, <<>>, Null, <<>>, "", "", NoAttrs, EmptyStyle,
         0, Kw("visible"), Null)

\* parent.appendChild(child): the child leaves the parent it had.
AppendChild(d, parent, child) ==
    LET old == d[child].parentNode
        d1 == IF old = Null THEN d
              ELSE [d EXCEPT ![old].childNodes = Remove(@, child)]
    IN [d1 EXCEPT ![parent].childNodes = Append(@, child),
                  ![child].parentNode = parent]

\* What cloneCSSStyle reads of an original node of the heap.
NodeStyleEnv(d, n) ==
    LET order == <<"font-size", "inset-block", "overflow-y", "position", "top">>
        pn == ParentElement(d, n)
    IN [sourceStyle |-> Computed(FALSE, order \o TailProps, Px(160),
                                 d[n].overflowY, Kw("static"), Px(0)),
        scrollTop |-> d[n].scrollTop,
        hasParent |-> pn # Null,
        parentScrollTop |-> IF pn = Null THEN 0 ELSE d[pn].scrollTop,
        parentStyle |-> Computed(FALSE, order \o TailProps, Px(160),
                                 IF pn = Null THEN Kw("visible") ELSE d[pn].overflowY,
                                 Kw("static"), Px(0)),
        innerHeight |-> 600,
        scrollY |-> 100]

---------------------------------------------------------------------------
(* cloneNode and its helpers                                               *)

Event(type, call, node, arg) ==
    [type |-> type, call |-> call, node |-> node, arg |-> arg]

\* The promise chain of cloneNode: the phases of a call, in order.
PipelineDecorateFirst == <<"single", "decorate", "children">>

Pipeline == <<"single", "children", "decorate">>

\* The phase that follows a phase of the chain; the chain then resolves.
After(phase) ==
    LET i == CHOOSE j \in 1..Len(Pipeline) : Pipeline[j] = phase
    IN IF i = Len(Pipeline) THEN "resolved" ELSE Pipeline[i + 1]

\* if (!isRoot && options.filter && !options.filter(node)) return null
CallsFilter(isRoot) == ~isRoot /\ options.filter

ExcludedNever(isRoot, pass) == FALSE

Excluded(isRoot, pass) == CallsFilter(isRoot) /\ ~pass

\* A new invocation cloneNode(node, options, isRoot) made by call parent for
\* its child number slot; pass is what options.filter(node) answers.
NewCall(node, isRoot, parent, slot, pass) ==
    [node |-> node, isRoot |-> isRoot, parent |-> parent, slot |-> slot,
     pc |-> IF Excluded(isRoot, pass) THEN "resolved" ELSE Pipeline[1],
     clone |-> Null, url |-> "", kids |-> <<>>, started |-> 0, idx |-> 0]

\* What entering cloneNode adds to the log.
EntryLog(c, node, isRoot, pass) ==
    (IF CallsFilter(isRoot)
     THEN <<Event("filter", c, node, IF pass THEN 1 ELSE 0)>> ELSE <<>>)
    \o (IF Excluded(isRoot, pass) THEN <<Event("null", c, node, Null)>> ELSE <<>>)

Calls == 1..Len(calls)

Settled(c) == calls[c].pc \in {"resolved", "rejected"}

\* The caller's invocation: cloneNode(node 1, options, isRoot?).
cloneNode ==
    /\ calls = <<>>
    /\ \E isRoot \in BOOLEAN, pass \in BOOLEAN :
          /\ CallsFilter(isRoot) \/ pass
          /\ calls' = <<NewCall(1, isRoot, Null, 0, pass)>>
          /\ log' = log \o EntryLog(1, 1, isRoot, pass)
    /\ UNCHANGED <<dom, before, options, css>>

\* A clone enters the heap under the next free id.
NewId == Len(dom) + 1

\* cloneSingleNode, up to its first suspension.
cloneSingleNode ==
    \E c \in Calls :
    LET node == dom[calls[c].node] IN
    /\ calls[c].pc = "single"
    /\ \/ /\ node.tag = "CANVAS"
          /\ \E dataURL \in {"data:,", "data:image/png"} :
                IF dataURL = "data:,"
                THEN /\ dom' = Append(dom, ShallowClone(node, calls[c].node))
                     /\ calls' = [calls EXCEPT ![c].pc = After("single"),
                                               ![c].clone = NewId]
                     /\ log' = Append(log, Event("clone", c, calls[c].node, NewId))
                ELSE /\ calls' = [calls EXCEPT ![c].pc = "image", ![c].url = dataURL]
                     /\ UNCHANGED <<dom, log>>
       \/ /\ node.tag = "VIDEO" /\ node.poster # ""
          /\ calls' = [calls EXCEPT ![c].pc = "resource"]
          /\ UNCHANGED <<dom, log>>
       \/ /\ node.tag # "CANVAS"
          /\ ~(node.tag = "VIDEO" /\ node.poster # "")
          /\ dom' = Append(dom, ShallowClone(node, calls[c].node))
          /\ calls' = [calls EXCEPT ![c].pc = After("single"), ![c].clone = NewId]
          /\ log' = Append(log, Event("clone", c, calls[c].node, NewId))
    /\ UNCHANGED <<before, options, css>>

\* await resourceToDataURL(poster, contentType, options) resolves.
ResourceResolved ==
    \E c \in Calls :
    /\ calls[c].pc = "resource"
    /\ calls' = [calls EXCEPT ![c].pc = "image", ![c].url = "data:image/png"]
    /\ UNCHANGED <<dom, before, options, log, css>>

\* await resourceToDataURL(poster, contentType, options) rejects: so do
\* cloneVideoElement, cloneSingleNode and the chain of cloneNode.
ResourceRejected ==
    \E c \in Calls :
    /\ calls[c].pc = "resource"
    /\ calls' = [calls EXCEPT ![c].pc = "rejected"]
    /\ log' = Append(log, Event("reject", c, calls[c].node, Null))
    /\ UNCHANGED <<dom, before, options, css>>

\* createImage(dataURL) resolves with the image.
createImage ==
    \E c \in Calls :
    /\ calls[c].pc = "image"
    /\ dom' = Append(dom, CreateImageNode(calls[c].url, calls[c].node))
    /\ calls' = [calls EXCEPT ![c].pc = After("single"), ![c].clone = NewId]
    /\ log' = Append(log, Event("clone", c, calls[c].node, NewId))
    /\ UNCHANGED <<before, options, css>>

\* nativeNode.tagName != null && nativeNode.tagName.toUpperCase() === "SLOT"
isSlotElement(node) == node.tag = "SLOT"

\* nativeNode.assignedNodes: the method exists on every slot element
HasAssignedNodes(node) == node.tag = "SLOT"

\* The children cloneChildren goes through.
EffectiveChildren(d, n) ==
    IF isSlotElement(d[n]) /\ HasAssignedNodes(d[n]) THEN d[n].assigned
    ELSE IF d[n].shadowRoot # Null THEN d[d[n].shadowRoot].childNodes
    ELSE d[n].childNodes

\* children.length === 0 || nativeNode instanceof HTMLVideoElement
SkipsChildren(node, children) == Len(children) = 0 \/ node.tag = "VIDEO"

\* cloneChildren, up to the reduce over the children.
cloneChildren ==
    \E c \in Calls :
    LET children == EffectiveChildren(dom, calls[c].node) IN
    /\ calls[c].pc = "children"
    /\ calls' = [calls EXCEPT
                   ![c].kids = children,
                   ![c].pc = IF SkipsChildren(dom[calls[c].node], children)
                             THEN After("children") ELSE "reduce"]
    /\ UNCHANGED <<dom, before, options, log, css>>

\* The call made for child number i of call c, or Null.
ChildCall(c, i) ==
    IF \E d \in Calls : calls[d].parent = c /\ calls[d].slot = i
    THEN CHOOSE d \in Calls : calls[d].parent = c /\ calls[d].slot = i
    ELSE Null

\* deferred.then(() => cloneNode(child, options)) runs once deferred, the
\* clone and append of the children before, has resolved.
CanStartChildEager(c) == calls[c].started < Len(calls[c].kids)

CanStartChild(c) ==
    /\ calls[c].started < Len(calls[c].kids)
    /\ calls[c].started = calls[c].idx

StartChild ==
    \E c \in Calls :
    /\ calls[c].pc = "reduce"
    /\ CanStartChild(c)
    /\ \E pass \in BOOLEAN :
          LET i == calls[c].started + 1
              child == calls[c].kids[i]
              d == Len(calls) + 1
          IN /\ CallsFilter(FALSE) \/ pass
             /\ calls' = Append([calls EXCEPT ![c].started = i],
                                NewCall(child, FALSE, c, i, pass))
             /\ log' = log \o EntryLog(d, child, FALSE, pass)
    /\ UNCHANGED <<dom, before, options, css>>

\* clonedNode.appendChild(clonedChild)
AppendeeOriginal(child, clonedChild) == child

Appendee(child, clonedChild) == clonedChild

\* Where appendChild puts the child among the clone's children.
AppendFirst(d, parent, child) ==
    [AppendChild(d, parent, child) EXCEPT
        ![parent].childNodes = <<child>> \o Remove(d[parent].childNodes, child)]

AppendCloned(d, parent, child) == AppendChild(d, parent, child)

\* .then((clonedChild) => { if (clonedChild) clonedNode.appendChild(clonedChild) })
\* and, after the last child, the return of cloneChildren.
FinishChild ==
    \E c \in Calls :
    LET i == calls[c].idx + 1
        d == ChildCall(c, i)
    IN /\ calls[c].pc = "reduce"
       /\ i <= Len(calls[c].kids)
       /\ d # Null
       /\ calls[d].pc = "resolved"
       /\ calls' = [calls EXCEPT
                      ![c].idx = i,
                      ![c].pc = IF i = Len(calls[c].kids)
                                THEN After("children") ELSE "reduce"]
       /\ IF calls[d].clone # Null
          THEN LET a == Appendee(calls[d].node, calls[d].clone)
               IN /\ dom' = AppendCloned(dom, calls[c].clone, a)
                  /\ log' = Append(log, Event("append", c, calls[c].node, a))
          ELSE UNCHANGED <<dom, log>>
       /\ UNCHANGED <<before, options, css>>

\* What a rejected child clone makes of its parent's chain.
AfterChildRejectedSwallowed(call) ==
    [call EXCEPT !.idx = @ + 1,
                 !.pc = IF call.idx + 1 = Len(call.kids)
                        THEN After("children") ELSE "reduce"]

AfterChildRejected(call) == [call EXCEPT !.pc = "rejected"]

\* A rejected cloneNode(child) rejects the rest of the reduce chain, the
\* await in cloneChildren and the chain of the parent's cloneNode.
ChildRejected ==
    \E c \in Calls :
    LET i == calls[c].idx + 1
        d == ChildCall(c, i)
    IN /\ calls[c].pc = "reduce"
       /\ i <= Len(calls[c].kids)
       /\ d # Null
       /\ calls[d].pc = "rejected"
       /\ calls' = [calls EXCEPT ![c] = AfterChildRejected(calls[c])]
       /\ log' = Append(log, Event("reject", c, calls[c].node, Null))
       /\ UNCHANGED <<dom, before, options, css>>

\* const targetStyle = clonedNode.style; if (!targetStyle) return
HasStyle(node) == IsElement(node)

\* cloneCSSStyle(nativeNode, clonedNode) on the heap: n is the native node,
\* k its clone.
CloneCSSStyleOf(d, n, k) ==
    [d EXCEPT ![k].style = cloneCSSStyle(NodeStyleEnv(d, n), HasStyle(d[k]), @)]

\* clonePseudoElements(nativeNode, clonedNode): the clone carries the styling
\* of the generated content.
clonePseudoElements(d, n, k) == [d EXCEPT ![k].pseudo = TRUE]

RECURSIVE Detach(_, _)
\* The nodes of a child list lose their parent.
Detach(d, kids) ==
    IF kids = <<>> THEN d
    ELSE Detach([d EXCEPT ![Head(kids)].parentNode = Null], Tail(kids))

\* element.innerHTML = html: the children are replaced by the parsed text.
SetInnerHTML(d, k, html) ==
    LET d1 == [Detach(d, d[k].childNodes) EXCEPT ![k].childNodes = <<>>]
    IN IF html = "" THEN d1
       ELSE [Append(d1, TextNode(k)) EXCEPT ![k].childNodes = <<Len(d1) + 1>>]

cloneInputValue(d, n, k) ==
    CASE d[n].tag = "TEXTAREA" -> SetInnerHTML(d, k, d[n].value)
      [] d[n].tag = "INPUT" -> [d EXCEPT ![k] = SetAttribute(@, "value", d[n].value)]
      [] OTHER -> d

\* Array.from(clonedSelect.children).find(...): the first element child of the
\* clone whose value attribute is the select's value, or Null.
SelectedOption(d, n, k) ==
    LET kids == SelectSeq(d[k].childNodes,
                          LAMBDA m : IsElement(d[m])
                                     /\ GetAttribute(d[m], "value") = d[n].value)
    IN IF kids = <<>> THEN Null ELSE Head(kids)

cloneSelectValue(d, n, k) ==
    IF d[n].tag = "SELECT" /\ SelectedOption(d, n, k) # Null
    THEN [d EXCEPT ![SelectedOption(d, n, k)] = SetAttribute(@, "selected", "")]
    ELSE d

\* decorate(nativeNode, clonedNode)
decorate(d, n, k) ==
    IF IsElement(d[k])
    THEN cloneSelectValue(
            cloneInputValue(clonePseudoElements(CloneCSSStyleOf(d, n, k), n, k), n, k),
            n, k)
    ELSE d

\* .then((clonedNode) => decorate(node, clonedNode))
Decorate ==
    \E c \in Calls :
    /\ calls[c].pc = "decorate"
    /\ dom' = decorate(dom, calls[c].node, calls[c].clone)
    /\ calls' = [calls EXCEPT ![c].pc = After("decorate")]
    /\ log' = Append(log, Event("decorate", c, calls[c].node, calls[c].clone))
    /\ UNCHANGED <<before, options, css>>

Init ==
    /\ \E p \in Shapes, s \in Originals, k \in Kinds :
          /\ ValidTree(p, s, k)
          /\ dom = SourceTree(p, s, k)
    /\ before = dom
    /\ \E f \in BOOLEAN : options = [filter |-> f]
    /\ calls = <<>>
    /\ log = <<>>
    /\ css = NoCss

Next ==
    \/ cloneNode
    \/ cloneSingleNode
    \/ ResourceResolved
    \/ ResourceRejected
    \/ createImage
    \/ cloneChildren
    \/ StartChild
    \/ FinishChild
    \/ ChildRejected
    \/ Decorate

Spec == Init /\ [][Next]_vars

---------------------------------------------------------------------------
(* Properties of the style copy (specification SpecStyle)                  *)

\* The finished copy's value of a property, Kw("") when the clone has none.
TargetValue(name) ==
    IF HasProperty(css.target, name) THEN css.target[name].value ELSE Kw("")

\* The node's parent element is scrolled: scrollTop > 0, overflow-y auto or scroll.
InScrolledParent ==
    /\ css.in.hasParent
    /\ css.in.parentScrollTop > 0
    /\ css.in.parentOverflowY \in {Kw("auto"), Kw("scroll")}

\* The node itself is scrolled: scrollTop > 0, overflow-y auto or scroll.
ScrolledItself ==
    /\ css.in.scrollTop > 0
    /\ css.in.overflowY \in {Kw("auto"), Kw("scroll")}

\* The document-scroll correction is in play: the parent is as tall as the
\* window, the node is taller and not fixed.
InScrolledBody ==
    /\ css.in.hasParent
    /\ css.in.position # Kw("fixed")
    /\ css.in.parentMinHeight = Px(6000)

\* C6: on the per-property path with no document-scroll correction in play,
\* an element whose parent element has scrollTop s > 0 and overflow-y auto or
\* scroll gets position: relative and top: -s px and carries no inset-block,
\* whatever the order in which the computed style enumerates its names.
C6_AncestorScroll ==
    (SlowPath /\ InScrolledParent /\ ~InScrolledBody) =>
        /\ TargetValue("position") = Kw("relative")
        /\ TargetValue("top") = Px(-(10 * css.in.parentScrollTop))
        /\ ~HasProperty(css.target, "inset-block")

\* The copy without the node's own scroll offset: what the clone's style
\* would be were the node not scrolled.
UnscrolledTarget ==
    cloneCSSStyle([DoneEnv EXCEPT !.scrollTop = 0], TRUE, InlineStyle)

OverflowHidden ==
    /\ TargetValue("overflow-y") = Kw("hidden")
    /\ DOMAIN css.target = DOMAIN UnscrolledTarget
    /\ \A p \in DOMAIN css.target \ {"overflow-y"} :
          css.target[p] = UnscrolledTarget[p]

\* C7 as claimed: every element that itself has scrollTop > 0 and overflow-y
\* auto or scroll gets overflow-y: hidden on its clone, and no other property
\* of the clone is affected.
C7_Original == (StyleDone /\ ScrolledItself) => OverflowHidden

\* C7: when the computed style has no cssText (the per-property path), every
\* element that itself has scrollTop > 0 and overflow-y auto or scroll gets
\* overflow-y: hidden on its clone, and no other property is affected.
C7_OverflowHidden == (SlowPath /\ ScrolledItself) => OverflowHidden

C7_Witness ==
    /\ SlowPath
    /\ css.in.scrollTop = 40
    /\ css.in.overflowY = Kw("auto")
    /\ TargetValue("overflow-y") = Kw("hidden")
    /\ TargetValue("font-size") # Kw("hidden")

\* floor(v) - 0.1 px for a pixel font size of v.n tenths; the value itself
\* for any other unit.
ExpectedFontSize(v) ==
    IF v.unit = "px"
    THEN [unit |-> "px", n |-> 10 * ((v.n - (v.n % 10)) \div 10) - 1, word |-> ""]
    ELSE v

\* C8 as claimed: every computed font-size of v px becomes (floor(v) - 0.1) px
\* on the clone, and a font-size in another unit is copied unchanged.
C8_Original == StyleDone => TargetValue("font-size") = ExpectedFontSize(css.in.fontSize)

\* C8: when the computed style has no cssText (the per-property path), a
\* computed font-size of v px becomes (floor(v) - 0.1) px on the clone (16px
\* gives 15.9px), and a font-size in another unit is copied unchanged.
C8_FontSize == SlowPath => TargetValue("font-size") = ExpectedFontSize(css.in.fontSize)

C8_Witness ==
    /\ SlowPath
    /\ css.in.fontSize = Px(160)
    /\ TargetValue("font-size") = Px(159)
    /\ css.target["font-size"].priority = "important"

---------------------------------------------------------------------------
(* Properties of cloneNode (specification Spec)                            *)

LogIdx == 1..Len(log)

\* The clones and parsed nodes: every node of the heap that is no original.
Created == (DOMAIN dom) \ Originals

RECURSIVE CallUnder(_, _)
\* Call d is call a or was made, directly or not, by call a.
CallUnder(d, a) ==
    \/ d = a
    \/ calls[d].parent # Null /\ CallUnder(calls[d].parent, a)

\* The filter was invoked for call c and answered false.
FilteredOut(c) ==
    \E i \in LogIdx : log[i] = Event("filter", c, calls[c].node, 0)

\* resourceToDataURL rejected in call c.
ResourceFailed(c) ==
    /\ before[calls[c].node].tag = "VIDEO"
    /\ \E i \in LogIdx : log[i] = Event("reject", c, calls[c].node, Null)

\* The positions of the log at which call c made its own clone.
ClonedAt(c) == {i \in LogIdx : log[i].type = "clone" /\ log[i].call = c}

\* The clones made for the children of call c, in the order of the children,
\* the excluded ones left out.
ChildClones(c, kids) ==
    SelectSeq([i \in 1..Len(kids) |-> calls[ChildCall(c, i)].clone],
              LAMBDA k : k # Null)

\* Every child of kids was cloned by a call of its own, made by call c, and
\* was excluded exactly when the filter refused it.
ChildrenVisited(c, kids) ==
    \A i \in 1..Len(kids) :
        LET d == ChildCall(c, i) IN
        /\ d # Null
        /\ calls[d].node = kids[i]
        /\ calls[d].pc = "resolved"
        /\ (calls[d].clone = Null) <=> FilteredOut(d)
        /\ calls[d].clone # Null => dom[calls[d].clone].of = kids[i]

\* C1: a non-root call whose filter answers false resolves to null; no node
\* below its node is visited (no call, no filter call, no clone, no append,
\* no decoration for the node or anything under it) and the call starts no
\* child call.
C1_FilterPrunes ==
    \A c \in Calls :
        FilteredOut(c) =>
            LET n == calls[c].node IN
            /\ ~calls[c].isRoot
            /\ calls[c].pc = "resolved"
            /\ calls[c].clone = Null
            /\ \A d \in Calls \ {c} :
                  ~IsUnder(before, calls[d].node, n) /\ calls[d].parent # c
            /\ \A i \in LogIdx :
                  (log[i].call = c \/ IsUnder(before, log[i].node, n)) =>
                      (log[i].call = c /\ log[i].type \in {"filter", "null"})
            /\ \A k \in Created :
                  dom[k].of = Null \/ ~IsUnder(before, dom[k].of, n)

C1_Witness ==
    \E c \in Calls :
        /\ FilteredOut(c)
        /\ calls[c].parent # Null
        /\ before[calls[c].node].childNodes # <<>>
        /\ calls[1].pc = "resolved"
        /\ calls[1].clone # Null

\* The clone call c resolved with has exactly the clones of the accepted
\* effective children of its node, in their order.
ChildListMatches(c) ==
    LET kids == EffectiveChildren(before, calls[c].node) IN
    /\ ChildrenVisited(c, kids)
    /\ dom[calls[c].clone].childNodes = ChildClones(c, kids)

\* C2 as claimed: every clone that completes has as its child list the
\* clones of the accepted effective children of its node, in source order.
C2_Original ==
    \A c \in Calls :
        (calls[c].pc = "resolved" /\ calls[c].clone # Null) => ChildListMatches(c)

\* C2: every clone that completes, of a node that is neither a video nor a
\* textarea, has as its child list the clones of the accepted effective
\* children of its node (the assigned nodes of a slot, else the children of
\* the shadow root, else the child nodes), in source order.
C2_ChildOrder ==
    \A c \in Calls :
        (/\ calls[c].pc = "resolved"
         /\ calls[c].clone # Null
         /\ before[calls[c].node].tag \notin {"VIDEO", "TEXTAREA"})
            => ChildListMatches(c)

C2_Witness ==
    /\ Len(calls) = 4
    /\ calls[1].pc = "resolved"
    /\ calls[1].kids = <<2, 3, 4>>
    /\ ~FilteredOut(2) /\ FilteredOut(3) /\ ~FilteredOut(4)
    /\ dom[calls[1].clone].childNodes = <<calls[2].clone, calls[4].clone>>

\* C3: once resourceToDataURL has rejected for a video, the call for the
\* video is rejected, no call that led to it ever resolves, and when the
\* operation has come to rest every one of them, the root call included, is
\* rejected.
C3_RejectionPropagates ==
    \A v \in Calls :
        ResourceFailed(v) =>
            \A a \in Calls :
                CallUnder(v, a) =>
                    /\ calls[a].pc # "resolved"
                    /\ calls[a].pc \in {"reduce", "rejected"}
                    /\ a = v => calls[a].pc = "rejected"
                    /\ ~(ENABLED Next) => calls[a].pc = "rejected"

C3_Witness ==
    \E v \in Calls :
        /\ ResourceFailed(v)
        /\ calls[v].parent # Null
        /\ calls[calls[v].parent].parent = 1
        /\ calls[1].pc = "rejected"
        /\ \E i \in LogIdx : log[i].type = "append"

\* C4: the children of a call are cloned one at a time and in order: a call
\* has at most one child call in flight, child i + 1 is not started (its
\* filter not called) before child i and everything under it has settled and
\* its clone, if any, has been appended, and the appends of a call follow
\* the order of the children.
C4_Sequential ==
    \A c \in Calls :
        /\ Cardinality({d \in Calls : calls[d].parent = c /\ ~Settled(d)}) <= 1
        /\ \A d, e \in Calls :
              (calls[d].parent = c /\ calls[e].parent = c
                 /\ calls[d].slot < calls[e].slot) =>
                 /\ calls[d].pc = "resolved"
                 /\ \A x \in Calls : CallUnder(x, d) => Settled(x)
                 /\ \A i, j \in LogIdx :
                       (CallUnder(log[i].call, d) /\ CallUnder(log[j].call, e))
                          => i < j
                 /\ calls[d].clone # Null =>
                       \E i \in LogIdx :
                          /\ log[i] = Event("append", c, calls[c].node, calls[d].clone)
                          /\ \A j \in LogIdx : CallUnder(log[j].call, e) => i < j

C4_Witness ==
    \E c, d, e \in Calls :
        /\ calls[d].parent = c /\ calls[e].parent = c
        /\ calls[d].slot = 1 /\ calls[e].slot = 2
        /\ calls[d].kids # <<>>
        /\ calls[c].pc = "resolved"
        /\ dom[calls[c].clone].childNodes = <<calls[d].clone, calls[e].clone>>

\* The effective children as claimed: the assigned nodes of a slot that has
\* some, else the children of the shadow root, else the child nodes.
ClaimedChildren(d, n) ==
    IF d[n].tag = "SLOT" /\ d[n].assigned # <<>> THEN d[n].assigned
    ELSE IF d[n].shadowRoot # Null THEN d[d[n].shadowRoot].childNodes
    ELSE d[n].childNodes

\* C5: the children cloneChildren goes through are the assigned nodes of a
\* slot element that has assigned nodes, else the children of the shadow
\* root, else the child nodes; a slot with no assigned nodes falls back.
C5_EffectiveChildren ==
    \A c \in Calls :
        calls[c].pc \in {"reduce", "decorate"} =>
            calls[c].kids = ClaimedChildren(before, calls[c].node)

\* C9: the source tree is never changed: every original node is as it was
\* before the call, and every node appended is a node made by the cloning,
\* appended to a clone.
C9_SourceUntouched ==
    /\ \A n \in Originals : dom[n] = before[n]
    /\ \A i \in LogIdx :
          log[i].type = "append" =>
              /\ log[i].arg \in Created
              /\ calls[log[i].call].clone \in Created
    /\ \A k \in Created : \A i \in 1..Len(dom[k].childNodes) :
          dom[k].childNodes[i] \in Created

C9_Witness ==
    /\ calls # <<>>
    /\ calls[1].pc = "resolved"
    /\ \E i \in LogIdx : log[i].type = "append"
    /\ \E c \in Calls : before[calls[c].node].tag = "TEXTAREA" /\ calls[c].pc = "resolved"

\* Shape, then children, then decoration, for the call decorated at position
\* x of the log: its clone was made before, and every call made for a child
\* ran, with everything under it, between the two and has resolved.
PhasesInOrder(x) ==
    LET c == log[x].call IN
    /\ \E s \in ClonedAt(c) :
          /\ s < x
          /\ \A y \in LogIdx :
                (CallUnder(log[y].call, c) /\ log[y].call # c) => (s < y /\ y < x)
    /\ \A d \in Calls :
          (CallUnder(d, c) /\ d # c) => calls[d].pc = "resolved"
    /\ \A d \in Calls :
          (calls[d].parent = c /\ calls[d].clone # Null) =>
              \E y \in LogIdx :
                  y < x /\ log[y] = Event("append", c, calls[c].node, calls[d].clone)

\* Every effective child of the node decorated at position x has been cloned
\* by a call of its own.
AllChildrenCloned(x) ==
    LET c == log[x].call
        kids == EffectiveChildren(before, calls[c].node)
    IN \A i \in 1..Len(kids) :
          ChildCall(c, i) # Null /\ calls[ChildCall(c, i)].node = kids[i]

\* No child is visited before the clone of its parent's node is made.
PreOrder ==
    \A d \in Calls :
        calls[d].parent # Null =>
            \E s \in ClonedAt(calls[d].parent) :
                \A y \in LogIdx : log[y].call = d => s < y

\* C10 as claimed: for every accepted node, shape, children, decoration
\* happen in this order, and the node is decorated only after every one of
\* its effective children has been cloned, decorated and appended or skipped.
C10_Original ==
    /\ PreOrder
    /\ \A x \in LogIdx :
          log[x].type = "decorate" => (PhasesInOrder(x) /\ AllChildrenCloned(x))

\* C10: for every accepted node, shape, children, decoration happen in this
\* order: the clone is made before any child is visited, and the node is
\* decorated only after every child that cloneChildren goes through (all the
\* effective children, none for a video) has been cloned, decorated and
\* appended or skipped.
C10_PhaseOrder ==
    /\ PreOrder
    /\ \A x \in LogIdx :
          log[x].type = "decorate" =>
              /\ PhasesInOrder(x)
              /\ before[log[x].node].tag # "VIDEO" => AllChildrenCloned(x)

C10_Witness ==
    \E c \in Calls :
        /\ before[calls[c].node].tag = "SELECT"
        /\ calls[c].pc = "resolved"
        /\ calls[c].clone # Null
        /\ Len(dom[calls[c].clone].childNodes) >= 2
        /\ GetAttribute(dom[dom[calls[c].clone].childNodes[1]], "selected") = ""

===========================================================================
